---- MODULE Spec2Model ----
(***************************************************************************)
(* A model of bleach (src/bleach/__init__.py): Cleaner.clean and linkify.  *)
(*                                                                         *)
(* Strings are sequences of tokens.  A token is a short piece of text that *)
(* the regular expressions of the module never split:                      *)
(*   "x"      one letter              "com"   the top-level domain com     *)
(*   "-" "." "," "(" ")" "/" "@" " "  themselves                           *)
(*   "http"   the four letters of a scheme, ":" its colon                  *)
(*   "<span>" the four characters of a tag; in a text buffer of the tree   *)
(*            they are literal text, in an HTML string they are markup     *)
(*   "&lt;span&gt;"  the escaped form of the literal text "<span>"         *)
(*   "<a" "href" "=\"" ">" "</a>"  the pieces of an anchor in markup       *)
(*   "<pre>" "</pre>" "</span>"      whole tags                            *)
(*   "\""    a double quote in text;  "&quot;"  its escaped form           *)
(***************************************************************************)
EXTENDS Integers, Sequences, FiniteSets, TLC

\* ------------------------------------------------------------------ bounds
MaxParens == 2
MaxTrail == 3
MaxChain == 2
MaxItems == 1
MaxChunks == 3
RecLimit == 2
MaxScans == 20

\* ----------------------------------------------------------------- helpers
Max(S) == CHOOSE m \in S : \A n \in S : n <= m
Min(S) == CHOOSE m \in S : \A n \in S : m <= n

\* The last index of the longest run of tokens of S that starts at i (i-1: none).
RunEnd(s, i, S) ==
    LET ok == {k \in i..Len(s) : \A m \in i..k : s[m] \in S}
    IN IF ok = {} THEN i - 1 ELSE Max(ok)

Rep(t, n) == [i \in 1..n |-> t]

RECURSIVE Concat(_)
Concat(ss) == IF ss = <<>> THEN <<>> ELSE Head(ss) \o Concat(Tail(ss))

\* Every sequence over S of length at most n.
SeqsUpTo(S, n) == UNION {[1..k -> S] : k \in 0..n}

\* ------------------------------------------------------- callbacks (inputs)
AttrKeys == {"_text", "href", "rel", "title", "name"}
Absent == <<"~absent~">>
NoAttrs == [k \in AttrKeys |-> Absent]

CallbackNames == {"rel", "title", "reject", "rejectNew", "rejectOld"}

\* One user-supplied callback, cb(attrs, new): a mapping, or None (ok = FALSE).
cb(name, attrs, new) ==
    CASE name = "rel" -> [ok |-> TRUE, attrs |-> [attrs EXCEPT !["rel"] = <<"nofollow">>]]
      [] name = "title" ->
            [ok |-> TRUE,
             attrs |-> [attrs EXCEPT !["title"] =
                           IF attrs["rel"] = Absent THEN <<"x">> ELSE <<"com">>]]
      [] name = "reject" -> [ok |-> FALSE, attrs |-> NoAttrs]
      [] name = "rejectNew" ->
            IF new THEN [ok |-> FALSE, attrs |-> NoAttrs] ELSE [ok |-> TRUE, attrs |-> attrs]
      [] OTHER ->
            IF new THEN [ok |-> TRUE, attrs |-> attrs] ELSE [ok |-> FALSE, attrs |-> NoAttrs]

\* apply_callbacks with the chain of linkify's closure passed explicitly.  calls
\* records each invocation: the callback, the mapping and the flag it received.
RECURSIVE apply_loop(_, _, _, _)
apply_loop(cbs, attrs, new, calls) ==
    IF cbs = <<>> THEN [ok |-> TRUE, attrs |-> attrs, calls |-> calls]
    ELSE LET r == cb(Head(cbs), attrs, new)
             log == Append(calls, [cb |-> Head(cbs), attrs |-> attrs, new |-> new])
         IN IF ~r.ok THEN [ok |-> FALSE, attrs |-> NoAttrs, calls |-> log]
            ELSE apply_loop(Tail(cbs), r.attrs, new, log)

\* A chain that does not stop at a reject: the later callbacks still run.
RECURSIVE apply_all(_, _, _, _, _)
apply_all(cbs, attrs, new, calls, ok) ==
    IF cbs = <<>> THEN [ok |-> ok, attrs |-> IF ok THEN attrs ELSE NoAttrs, calls |-> calls]
    ELSE LET r == cb(Head(cbs), attrs, new)
             log == Append(calls, [cb |-> Head(cbs), attrs |-> attrs, new |-> new])
         IN apply_all(Tail(cbs), IF r.ok THEN r.attrs ELSE attrs, new, log, ok /\ r.ok)

apply_callbacks_no_stop(cbs, attrs, new) == apply_all(cbs, attrs, new, <<>>, TRUE)

apply_callbacks(cbs, attrs, new) == apply_loop(cbs, attrs, new, <<>>)

\* ------------------------------------------------------------------ url_re
WordTok == {"x", "com", "http"}
HostTok == WordTok \cup {"-"}
PathTok == HostTok \cup {".", ",", "(", ")", "/", "@", ":"}

\* \b before position j.
WordBoundary(s, j) ==
    (j > 1 /\ s[j-1] \in WordTok) # (j <= Len(s) /\ s[j] \in WordTok)

\* s[a..b] is ([\w-]+\.)* [\w-]+ : labels separated by single dots.
HostLabelsOK(s, a, b) ==
    /\ a <= b
    /\ \A m \in a..b : s[m] \in HostTok \cup {"."}
    /\ s[a] # "." /\ s[b] # "."
    /\ \A m \in a..(b-1) : ~(s[m] = "." /\ s[m+1] = ".")

\* (?!\.\w)\b after the top-level domain at e.
AfterTld(s, e) ==
    /\ ~(e + 2 <= Len(s) /\ s[e+1] = "." /\ s[e+2] \in WordTok)
    /\ ~(e + 1 <= Len(s) /\ s[e+1] \in WordTok)

\* ([\w-]+\.)+(?:tld)(?!\.\w)\b from k: the end of the longest host, or 0.
HostEnd(s, k) ==
    LET ends == {e \in (k+2)..Len(s) :
                    s[e] = "com" /\ s[e-1] = "." /\ HostLabelsOK(s, k, e-2)
                    /\ AfterTld(s, e)}
    IN IF ends = {} THEN 0 ELSE Max(ends)

\* (?:(?:\w+:)?\w+@) from k: the index of its "@", or 0.  b and d are the
\* indices after the first and the second run of word tokens.
UserinfoAfterColon(s, b, d) == IF d <= Len(s) /\ d > b + 1 /\ s[d] = "@" THEN d ELSE 0

UserinfoAt(s, k, b) ==
    IF b > Len(s) \/ b = k THEN 0
    ELSE IF s[b] = "@" THEN b
    ELSE IF s[b] = ":" THEN UserinfoAfterColon(s, b, RunEnd(s, b + 1, WordTok) + 1)
    ELSE 0

UserinfoEnd(s, k) == UserinfoAt(s, k, RunEnd(s, k, WordTok) + 1)

\* The host after scheme and slashes: after the userinfo if that leads to a
\* match, else from k0 (the optional userinfo left out).
Either(e1, e2) == IF e1 > 0 THEN e1 ELSE e2
HostAfterUser(s, k0, u) == Either(IF u > 0 THEN HostEnd(s, u + 1) ELSE 0, HostEnd(s, k0))

\* (?:scheme):/{0,3} at j, then the host; k0 is the index after the slashes.
HostAfterProto(s, j, k0) ==
    IF k0 - (j + 2) > 3 THEN 0 ELSE HostAfterUser(s, k0, UserinfoEnd(s, k0))

\* (?:[/?][^\s{}|\\^\[\]`<>"]*)? after the host that ends at e.
PathEnd(s, e) ==
    IF e = 0 THEN 0
    ELSE IF e < Len(s) /\ s[e+1] = "/" THEN RunEnd(s, e + 1, PathTok)
    ELSE e

\* \b(?<![@.]) at j, then the optional scheme part, the host and the path.
UrlEndAt(s, j) ==
    IF j > Len(s) \/ ~WordBoundary(s, j) \/ (j > 1 /\ s[j-1] \in {"@", "."})
    THEN 0
    ELSE PathEnd(s, IF s[j] = "http" /\ j < Len(s) /\ s[j+1] = ":"
                    THEN HostAfterProto(s, j, RunEnd(s, j + 2, {"/"}) + 1)
                    ELSE HostEnd(s, j))

\* url_re matched at i: the index of the match's last token, or 0.
UrlEnd(s, i) == UrlEndAt(s, RunEnd(s, i, {"("}) + 1)

\* ---------------------------------------------------------------- email_re
AtomTok == HostTok \cup {"/"}
TokLen(t) == IF t = "com" THEN 3 ELSE IF t = "http" THEN 4 ELSE 1

RECURSIVE CharLen(_)
CharLen(s) == IF s = <<>> THEN 0 ELSE TokLen(Head(s)) + CharLen(Tail(s))

\* s[a..b] is a dot-atom.
DotAtomOK(s, a, b) ==
    /\ a <= b
    /\ \A m \in a..b : s[m] \in AtomTok \cup {"."}
    /\ s[a] # "." /\ s[b] # "."
    /\ \A m \in a..(b-1) : ~(s[m] = "." /\ s[m+1] = ".")

\* s[a..b] is ([A-Z0-9]([A-Z0-9-]{0,61}[A-Z0-9])?\.)* of the domain without its
\* last dot: labels that neither start nor end with a hyphen.
DomainLabelsOK(s, a, b) ==
    /\ HostLabelsOK(s, a, b)
    /\ s[a] # "-" /\ s[b] # "-"
    /\ \A m \in a..(b-1) : ~(s[m] = "-" /\ s[m+1] = ".") /\ ~(s[m] = "." /\ s[m+1] = "-")

\* [A-Z]{2,6} from d: the index of its last token, or 0 (whole tokens only).
TldEnd(s, d) ==
    LET ok == {r \in d..RunEnd(s, d, WordTok) :
                  CharLen(SubSeq(s, d, r)) \in 2..6}
    IN IF ok = {} THEN 0 ELSE Max(ok)

DomainEnd(s, k) ==
    LET ends == {TldEnd(s, d + 1) : d \in {m \in (k+1)..Len(s) :
                    s[m] = "." /\ DomainLabelsOK(s, k, m - 1)}} \ {0}
    IN IF ends = {} THEN 0 ELSE Max(ends)

\* email_re (its dot-atom alternative) matched at i: the last index, or 0.  a is
\* the index after the run of atom tokens and dots.
EmailEndAt(s, i, a) ==
    IF \/ s[i] \notin AtomTok
       \/ (i >= 3 /\ s[i-1] = "/" /\ s[i-2] = "/")
       \/ a > Len(s)
    THEN 0
    ELSE IF s[a] = "@" /\ DotAtomOK(s, i, a - 1) THEN DomainEnd(s, a + 1) ELSE 0

\* The tokens of [\001-\010\013\014\016-\037!#-\[\]-\177]: every character but
\* the space, the double quote and the backslash.
QuotedTok == AtomTok \cup {".", ",", "(", ")", ":", "@", "<span>"}

\* email_re (its quoted-string alternative, ^"..."@domain) matched at the start
\* of s: the last index, or 0.  q is the index after the run of quoted tokens.
EmailQuotedEnd(s, q) ==
    IF q + 1 <= Len(s) /\ s[q] = "\"" /\ s[q + 1] = "@" THEN DomainEnd(s, q + 2) ELSE 0

EmailEnd(s, i) ==
    IF i = 1 /\ Len(s) >= 1 /\ s[1] = "\""
    THEN EmailQuotedEnd(s, RunEnd(s, 2, QuotedTok) + 1)
    ELSE EmailEndAt(s, i, RunEnd(s, i, AtomTok \cup {"."}) + 1)

\* ------------------------------------------------------------------ re.sub
MatchEnd(kind, s, i) == IF kind = "url" THEN UrlEnd(s, i) ELSE EmailEnd(s, i)

\* The matches that start at pos or later.
MatchesFrom(kind, s, pos) ==
    {m \in {[from |-> i, to |-> MatchEnd(kind, s, i)] : i \in pos..Len(s)} : m.to > 0}

Leftmost(M) == CHOOSE m \in M : \A n \in M : m.from <= n.from

\* The non-overlapping matches from pos on, leftmost first.
RECURSIVE Spans(_, _, _), SpansOf(_, _, _), SpansAfter(_, _, _)
SpansAfter(kind, s, m) == <<m>> \o Spans(kind, s, m.to + 1)
SpansOf(kind, s, M) == IF M = {} THEN <<>> ELSE SpansAfter(kind, s, Leftmost(M))
Spans(kind, s, pos) == SpansOf(kind, s, MatchesFrom(kind, s, pos))

\* ------------------------------------------- strip_wrapping_parentheses
RECURSIVE StripLoop(_, _, _, _, _)
StripLoop(rev, opening, closing, skip, newer) ==
    IF rev = <<>> THEN [frag |-> newer, closing |-> closing]
    ELSE LET char == Head(rev)
         IN IF char = ")" /\ closing < opening /\ ~skip
            THEN StripLoop(Tail(rev), opening, closing + 1, skip, newer)
            ELSE StripLoop(Tail(rev), opening, closing,
                           IF char # ")" THEN TRUE ELSE skip, Append(newer, char))

Reverse(s) == [i \in 1..Len(s) |-> s[Len(s) + 1 - i]]

StripWrapped(fragment, opening) ==
    IF opening = 0 THEN [frag |-> fragment, closing |-> 0]
    ELSE StripLoop(Reverse(SubSeq(fragment, opening + 1, Len(fragment))), opening, 0,
                   FALSE, <<>>)

\* The loop builds the new fragment back to front.
Stripped(opening, r) ==
    [frag |-> IF opening = 0 THEN r.frag ELSE Reverse(r.frag), opening |-> opening,
     closing |-> r.closing]

StripCount(fragment, opening) == Stripped(opening, StripWrapped(fragment, opening))

strip_wrapping_parentheses(fragment) == StripCount(fragment, RunEnd(fragment, 1, {"("}))

\* ------------------------------------------------------------- link_repl
\* url.rstrip(')')
RStripParen(url) ==
    LET keep == {k \in 0..Len(url) : \A m \in (k+1)..Len(url) : url[m] = ")"}
    IN SubSeq(url, 1, Min(keep))

\* punct_re, ([\.,]+)$ : the index where the trailing run starts (Len+1: none).
PunctStart(url) ==
    Min({k \in 1..(Len(url)+1) : \A m \in k..Len(url) : url[m] \in {".", ","}})

\* proto_re, ^[\w-]+:/{0,3}
HasProto(url) ==
    LET r == RunEnd(url, 1, HostTok) + 1 IN r > 1 /\ r <= Len(url) /\ url[r] = ":"

\* attr="value" for every attribute the chain left besides href and _text.
Attribs(link) ==
    LET one(k) == IF link[k] = Absent THEN <<>> ELSE <<k, "=\"">> \o link[k] \o <<"\"">>
        sep == IF link["rel"] # Absent /\ link["title"] # Absent THEN <<" ">> ELSE <<>>
    IN one("rel") \o sep \o one("title")

AnchorHtml(link) ==
    <<"<a", " ", "href", "=\"">> \o link["href"] \o <<"\"", " ">> \o Attribs(link)
        \o <<">">> \o link["_text"] \o <<"</a>">>

\* The pieces link_repl works with, for one match of url_re.
\* if url.startswith('('): strip_wrapping_parentheses
Wrapped(m) ==
    IF m # <<>> /\ Head(m) = "("
    THEN strip_wrapping_parentheses(m)
    ELSE [frag |-> m, opening |-> 0, closing |-> 0]

\* if url.endswith(')') and '(' not in url: rstrip(')')
Unlone(frag) ==
    IF frag # <<>> /\ frag[Len(frag)] = ")" /\ \A k \in 1..Len(frag) : frag[k] # "("
    THEN RStripParen(frag) ELSE frag

Parts(open, close, url, end) ==
    [open |-> open, close |-> close, url |-> url, end |-> end,
     href |-> IF HasProto(url) THEN url ELSE <<"http", ":", "/", "/">> \o url]

PunctSplit(w, u1, p) ==
    Parts(w.opening, w.closing + (Len(w.frag) - Len(u1)), SubSeq(u1, 1, p - 1),
          SubSeq(u1, p, Len(u1)))

Unwrapped(w, u1) == PunctSplit(w, u1, PunctStart(u1))
LinkPartsOf(w) == Unwrapped(w, Unlone(w.frag))
LinkParts(m) == LinkPartsOf(Wrapped(m))

\* The mapping link_repl hands to the chain.
PartsAttrs(p) == [NoAttrs EXCEPT !["_text"] = p.url, !["href"] = p.href]
LinkAttrs(m) == PartsAttrs(LinkParts(m))

\* What link_repl returns: the text without the anchor if the chain rejected.
LinkOut(p, link) ==
    IF ~link.ok
    THEN Rep("(", p.open) \o p.url \o Rep(")", p.close)
    ELSE Rep("(", p.open) \o AnchorHtml(link.attrs) \o p.end \o Rep(")", p.close)

LinkRepl(p, cbs) == LinkOut(p, apply_callbacks(cbs, PartsAttrs(p), TRUE))

link_repl(m, cbs) == LinkRepl(LinkParts(m), cbs)

\* ------------------------------------------------------------ email_repl
Quot(s) == Concat([i \in 1..Len(s) |-> IF s[i] = "\"" THEN <<"&quot;">> ELSE <<s[i]>>])

\* The mapping email_repl hands to the chain.
AddrAttrs(addr) == [NoAttrs EXCEPT !["_text"] = addr, !["href"] = <<"mailto:">> \o addr]
EmailAttrs(m) == AddrAttrs(Quot(m))

EmailOut(addr, link) == IF ~link.ok THEN addr ELSE AnchorHtml(link.attrs)
EmailReplOf(addr, cbs) == EmailOut(addr, apply_callbacks(cbs, AddrAttrs(addr), TRUE))
email_repl(m, cbs) == EmailReplOf(Quot(m), cbs)

Repl(kind, m, cbs) == IF kind = "url" THEN link_repl(m, cbs) ELSE email_repl(m, cbs)

\* re.sub(pattern, repl, s): the substitutions made and the resulting string.
RECURSIVE SubFrom(_, _, _, _, _)
SubFrom(kind, s, cbs, spans, pos) ==
    IF spans = <<>> THEN SubSeq(s, pos, Len(s))
    ELSE LET sp == Head(spans)
         IN SubSeq(s, pos, sp.from - 1) \o Repl(kind, SubSeq(s, sp.from, sp.to), cbs)
                \o SubFrom(kind, s, cbs, Tail(spans), sp.to + 1)

re_sub(kind, s, cbs) == SubFrom(kind, s, cbs, Spans(kind, s, 1), 1)

\* ================================================================= state
VARIABLES
    \* re.sub over one text buffer
    text, chain, kind, subs, out, rpc,
    \* one call of apply_callbacks
    attrs0, isNew, res,
    \* calls of clean and linkify by two callers
    cfg, call, inst, input, ptree, dom, result, cpc,
    \* one call of linkify
    winput, parse_email, skip_pre, heap, seen, stack, wpc, aborted, wresult,
    dispatched, scans

replVars == <<text, chain, kind, subs, out, rpc>>
cbVars == <<attrs0, isNew, res>>
cleanVars == <<cfg, call, inst, input, ptree, dom, result, cpc>>
notWalk == <<text, kind, subs, out, rpc, attrs0, isNew, res,
             cfg, call, inst, input, ptree, dom, result, cpc>>
notClean == <<text, chain, kind, subs, out, rpc, attrs0, isNew, res,
              winput, parse_email, skip_pre, heap, seen, stack, wpc, aborted, wresult,
              dispatched, scans>>
walkVars == <<winput, parse_email, skip_pre, heap, seen, stack, wpc, aborted, wresult,
              dispatched, scans>>
vars == <<text, chain, kind, subs, out, rpc, attrs0, isNew, res,
          cfg, call, inst, input, ptree, dom, result, cpc,
          winput, parse_email, skip_pre, heap, seen, stack, wpc, aborted, wresult,
          dispatched, scans>>

Chains == SeqsUpTo(CallbackNames, MaxChain)
ShortChains == {c \in Chains : Len(c) <= 1}

\* ===================================================== Cleaner.clean
\* The whitelists of the module.
ALLOWED_TAGS ==
    {"a", "abbr", "acronym", "b", "blockquote", "code", "em", "i", "li", "ol",
     "strong", "ul"}
AttrMapKeys == {"*", "a", "abbr", "acronym", "em", "img", "script"}
ALLOWED_ATTRIBUTES ==
    [k \in AttrMapKeys |->
        CASE k = "a" -> {"href", "title"}
          [] k \in {"abbr", "acronym"} -> {"title"}
          [] OTHER -> {}]
ALLOWED_STYLES == {}
ALLOWED_PROTOCOLS == {"http", "https", "mailto"}

\* A node event of the tree walker: open/close of an element, text, comment; the
\* filter adds "esc-open" / "esc-close", a tag turned into literal text.
Ev(t, name, attrs) == [t |-> t, name |-> name, attrs |-> attrs]
At(name, val) == [name |-> name, val |-> val]

\* The value of href and src is given by its scheme ("": a relative URL), the
\* value of style by the one property it declares.
UrlAttrs == {"href", "src"}
Lower(scheme) ==
    CASE scheme = "HTTP" -> "http" [] scheme = "JavaScript" -> "javascript" [] OTHER -> scheme

\* BleachSanitizerFilter on one event: the events it emits.
SanitizeAttrs(tag, attrs, attrmap, styles, protocols) ==
    {a \in attrs :
        /\ a.name \in attrmap[tag] \cup attrmap["*"]
        /\ a.name \in UrlAttrs => (a.val = "" \/ Lower(a.val) \in protocols)
        /\ a.name = "style" => a.val \in styles}

SanitizeEvent(e, attrmap, strip, strip_comments, tags, styles, protocols) ==
    CASE e.t = "comment" -> IF strip_comments THEN <<>> ELSE <<e>>
      [] e.t = "text" -> <<e>>
      [] e.t = "open" ->
            IF e.name \in tags
            THEN <<Ev("open", e.name, SanitizeAttrs(e.name, e.attrs, attrmap, styles, protocols))>>
            ELSE IF strip THEN <<>> ELSE <<Ev("esc-open", e.name, e.attrs)>>
      [] e.t = "close" ->
            IF e.name \in tags THEN <<e>>
            ELSE IF strip THEN <<>> ELSE <<Ev("esc-close", e.name, {})>>
      [] OTHER -> <<e>>

BleachSanitizerFilter(source, attrmap, strip, strip_comments, tags, styles, protocols) ==
    Concat([i \in 1..Len(source) |->
               SanitizeEvent(source[i], attrmap, strip, strip_comments, tags, styles,
                             protocols)])

\* A caller-supplied html5lib filter class: "AddLink" wraps link-like text in an
\* anchor, as a linkifying filter does.
ApplyFilter(f, source) ==
    Concat([i \in 1..Len(source) |->
               IF f = "AddLink" /\ source[i].t = "text" /\ source[i].name = "x.com"
               THEN <<Ev("open", "a", {At("href", "http")}), source[i], Ev("close", "a", {})>>
               ELSE <<source[i]>>])

RECURSIVE ApplyFilters(_, _)
ApplyFilters(fs, source) ==
    IF fs = <<>> THEN source ELSE ApplyFilters(Tail(fs), ApplyFilter(Head(fs), source))

\* The filter chain of Cleaner.clean with the allowed tags wired to the wrong list.
FilteredDefaultTags(c, d) ==
    ApplyFilters(c.filters,
        BleachSanitizerFilter(d, c.attributes, c.strip, c.strip_comments, ALLOWED_TAGS,
                              c.styles, c.protocols))

\* The filter chain of Cleaner.clean that ignores self.strip.
FilteredNoStrip(c, d) ==
    ApplyFilters(c.filters,
        BleachSanitizerFilter(d, c.attributes, FALSE, c.strip_comments, c.tags,
                              c.styles, c.protocols))

\* Cleaner.clean after the parse: the sanitizer over the walker's events, then
\* the caller's filters.
Filtered(c, d) ==
    ApplyFilters(c.filters,
        BleachSanitizerFilter(d, c.attributes, c.strip, c.strip_comments, c.tags,
                              c.styles, c.protocols))

\* HTMLSerializer.render: attributes in a fixed order, values quoted.
AttrOrder == <<"href", "onclick", "rel", "src", "style", "title">>
RenderAttrs(attrs) ==
    Concat([i \in 1..Len(AttrOrder) |->
               IF \E a \in attrs : a.name = AttrOrder[i]
               THEN <<" ", AttrOrder[i], "=\"",
                      (CHOOSE a \in attrs : a.name = AttrOrder[i]).val, "\"">>
               ELSE <<>>])

RenderEvent(e) ==
    CASE e.t = "open" -> <<"<", e.name>> \o RenderAttrs(e.attrs) \o <<">">>
      [] e.t = "close" -> <<"</", e.name, ">">>
      [] e.t = "esc-open" -> <<"&lt;", e.name>> \o RenderAttrs(e.attrs) \o <<"&gt;">>
      [] e.t = "esc-close" -> <<"&lt;/", e.name, "&gt;">>
      [] e.t = "comment" -> <<"<!--", e.name, "-->">>
      [] OTHER -> <<e.name>>

Render(events) == Concat([i \in 1..Len(events) |-> RenderEvent(events[i])])

\* The two callers, the parser objects (one per Cleaner instance, one private to
\* each caller for the calls that build their own) and the kinds of call.
Callers == {1, 2}
Instances == {"A", "B"}
CallKinds == {"Cleaner.clean", "clean"}

\* The parser object call t parses with: self.parser of its Cleaner instance;
\* the function clean() builds a Cleaner of its own for each call.
ParserOf(t) == IF call[t] = "Cleaner.clean" THEN inst[t] ELSE IF t = 1 THEN "P1" ELSE "P2"

Parsers == Instances \cup {"P1", "P2"}

\* if not text: return u''
ReturnEmpty(t) ==
    /\ cpc[t] = "call"
    /\ input[t] = <<>>
    /\ result' = [result EXCEPT ![t] = <<>>]
    /\ cpc' = [cpc EXCEPT ![t] = "done"]
    /\ UNCHANGED <<cfg, call, inst, input, ptree, dom>>
    /\ UNCHANGED notClean

\* parseFragment, first step: the parser resets the tree it is building.
ParseReset(t) ==
    /\ cpc[t] = "call"
    /\ input[t] # <<>>
    /\ ptree' = [ptree EXCEPT ![ParserOf(t)] = <<>>]
    /\ cpc' = [cpc EXCEPT ![t] = "reset"]
    /\ UNCHANGED <<cfg, call, inst, input, dom, result>>
    /\ UNCHANGED notClean

\* parseFragment, main loop: the nodes of the text are added to that tree.
ParseFeed(t) ==
    /\ cpc[t] = "reset"
    /\ ptree' = [ptree EXCEPT ![ParserOf(t)] = @ \o input[t]]
    /\ cpc' = [cpc EXCEPT ![t] = "fed"]
    /\ UNCHANGED <<cfg, call, inst, input, dom, result>>
    /\ UNCHANGED notClean

\* parseFragment returns the parser's tree.
ParseGet(t) ==
    /\ cpc[t] = "fed"
    /\ dom' = [dom EXCEPT ![t] = ptree[ParserOf(t)]]
    /\ cpc' = [cpc EXCEPT ![t] = "parsed"]
    /\ UNCHANGED <<cfg, call, inst, input, ptree, result>>
    /\ UNCHANGED notClean

\* The rest of clean: filter the walker's events and serialize them.
Finish(t) ==
    /\ cpc[t] = "parsed"
    /\ result' = [result EXCEPT ![t] = Render(Filtered(cfg, dom[t]))]
    /\ cpc' = [cpc EXCEPT ![t] = "done"]
    /\ UNCHANGED <<cfg, call, inst, input, ptree, dom>>
    /\ UNCHANGED notClean

CleanNext ==
    \E t \in Callers :
        ReturnEmpty(t) \/ ParseReset(t) \/ ParseFeed(t) \/ ParseGet(t) \/ Finish(t)

\* Inputs: the events of a parsed text.
InTags == {"a", "em", "script", "img"}
InAttrs ==
    {{}, {At("href", "HTTP"), At("title", "v")}, {At("href", "JavaScript"), At("onclick", "v")},
     {At("src", ""), At("style", "color")}}
Items ==
    {<<Ev("text", "x.com", {})>>, <<Ev("comment", "c", {})>>}
    \cup {<<Ev("open", tg, at)>> \o body \o <<Ev("close", tg, {})>> :
             tg \in InTags, at \in InAttrs, body \in {<<>>, <<Ev("text", "a()", {})>>}}
Streams == {Concat(ss) : ss \in SeqsUpTo(Items, MaxItems)}

Configs ==
    [tags : {ALLOWED_TAGS, {"em", "img"}},
     attributes : {ALLOWED_ATTRIBUTES,
                   [k \in AttrMapKeys |->
                       CASE k = "*" -> {"title"} [] k = "img" -> {"src", "style"}
                         [] k = "a" -> {"rel", "href"} [] OTHER -> {}]},
     styles : {ALLOWED_STYLES},
     protocols : {ALLOWED_PROTOCOLS, {"javascript"}},
     strip : BOOLEAN,
     strip_comments : BOOLEAN,
     filters : {<<>>, <<"AddLink">>}]

CleanIdle ==
    /\ cfg = CHOOSE c \in Configs : TRUE
    /\ call = [t \in Callers |-> "clean"]
    /\ inst = [t \in Callers |-> "A"]
    /\ input = [t \in Callers |-> <<>>]
    /\ ptree = [q \in Parsers |-> <<>>]
    /\ dom = [t \in Callers |-> <<>>]
    /\ result = [t \in Callers |-> <<>>]
    /\ cpc = [t \in Callers |-> "idle"]

\* ============================================================== linkify
\* ---------------------------------------------------- the parser's trees
\* The heap holds the elements; an element is named by its index.  text is the
\* text before the first child, tail the text after the element's end tag.
Node(tag, attrs) ==
    [tag |-> tag, attrs |-> attrs, text |-> <<>>, tail |-> <<>>, kids |-> <<>>]

TagOf(t) ==
    CASE t \in {"<span>", "</span>"} -> "span"
      [] t \in {"<pre>", "</pre>"} -> "pre"
      [] OTHER -> "a"

\* The character data a token of an HTML string stands for.
Unescape(t) ==
    CASE t = "&lt;span&gt;" -> "<span>" [] t = "&quot;" -> "\"" [] OTHER -> t

\* Character data arriving while top is the innermost open element.
AddText(h, top, toks) ==
    IF h[top].kids = <<>> THEN [h EXCEPT ![top].text = @ \o toks]
    ELSE [h EXCEPT ![h[top].kids[Len(h[top].kids)]].tail = @ \o toks]

\* A new element, the last child of top; its name is Len(h) + 1.
AddChild(h, top, n) == Append([h EXCEPT ![top].kids = Append(@, Len(h) + 1)], n)

\* An end tag closes the innermost open element of its name and all inside it.
PopTo(h, open, tag) ==
    LET m == {k \in 1..Len(open) : h[open[k]].tag = tag}
    IN IF m = {} THEN open ELSE SubSeq(open, Min(m) + 1, Len(open))

\* The attributes written in s[p..b], the inside of a start tag.
RECURSIVE ParseAttrs(_, _, _, _)
ParseAttrs(s, p, b, acc) ==
    IF p > b THEN acc
    ELSE IF s[p] = " " /\ p + 2 <= b /\ s[p + 2] = "=\""
    THEN LET q == Min({k \in (p + 3)..(b + 1) : k = b + 1 \/ s[k] = "\""})
             key == s[p + 1]
             val == [i \in 1..(q - p - 3) |-> Unescape(s[p + 2 + i])]
         IN ParseAttrs(s, q + 1, b,
                       IF key \in AttrKeys /\ acc[key] = Absent
                       THEN [acc EXCEPT ![key] = val] ELSE acc)
    ELSE ParseAttrs(s, p + 1, b, acc)

\* One step of the tree builder on the token s[st.i]; st.open is the stack of
\* open elements, innermost first.
ParseStep(st, s) ==
    LET h == st.h
        open == st.open
        i == st.i
        t == s[i]
    IN CASE t = "<a" ->
               LET j == Min({k \in i..(Len(s) + 1) : k = Len(s) + 1 \/ s[k] = ">"})
                   open1 == PopTo(h, open, "a")
                   n == Node("a", ParseAttrs(s, i + 1, j - 1, NoAttrs))
               IN [h |-> AddChild(h, Head(open1), n), open |-> <<Len(h) + 1>> \o open1,
                   i |-> j + 1]
          [] t \in {"<span>", "<pre>"} ->
               [h |-> AddChild(h, Head(open), Node(TagOf(t), NoAttrs)),
                open |-> <<Len(h) + 1>> \o open, i |-> i + 1]
          [] t \in {"</a>", "</span>", "</pre>"} ->
               [h |-> h, open |-> PopTo(h, open, TagOf(t)), i |-> i + 1]
          [] OTHER ->
               [h |-> AddText(h, Head(open), <<Unescape(t)>>), open |-> open, i |-> i + 1]

\* The tree builder's loop (each step's result is computed once, then passed on).
RECURSIVE ParseLoop(_, _)
ParseLoop(st, s) ==
    IF st.i > Len(s) THEN st.h
    ELSE CHOOSE r \in {ParseLoop(n, s) : n \in {ParseStep(st, s)}} : TRUE

\* parser.parseFragment(s): the fragment's root is element Len(h) + 1 of the result.
parseFragment(h, s) ==
    ParseLoop([h |-> Append(h, Node("#frag", NoAttrs)), open |-> <<Len(h) + 1>>, i |-> 1], s)

\* ------------------------------------------------------------ serializer
EscText(s) == [i \in 1..Len(s) |-> IF s[i] = "<span>" THEN "&lt;span&gt;" ELSE s[i]]
EscAttr(s) == [i \in 1..Len(s) |-> IF s[i] = "\"" THEN "&quot;" ELSE s[i]]

\* alphabetical_attributes=True, quote_attr_values='always'
SerializeAttrs(attrs) ==
    LET order == <<"href", "name", "rel", "title">>
    IN Concat([i \in 1..Len(order) |->
                  IF attrs[order[i]] = Absent THEN <<>>
                  ELSE <<" ", order[i], "=\"">> \o EscAttr(attrs[order[i]]) \o <<"\"">>])

\* _serialize(domtree): the element n with all inside it, without its tail.
\* raw: the children's tails are copied as they are (see render_inner).
RECURSIVE serialize(_, _), SerializeKids(_, _, _)
SerializeKids(h, kids, raw) ==
    IF kids = <<>> THEN <<>>
    ELSE serialize(h, Head(kids))
            \o (IF raw THEN h[Head(kids)].tail ELSE EscText(h[Head(kids)].tail))
            \o SerializeKids(h, Tail(kids), raw)

serialize(h, n) ==
    LET inner == EscText(h[n].text) \o SerializeKids(h, h[n].kids, FALSE)
    IN CASE h[n].tag = "#frag" -> inner
         [] h[n].tag = "a" ->
               <<"<a">> \o SerializeAttrs(h[n].attrs) \o <<">">> \o inner \o <<"</a>">>
         [] h[n].tag = "span" -> <<"<span>">> \o inner \o <<"</span>">>
         [] OTHER -> <<"<pre>">> \o inner \o <<"</pre>">>

\* _render_inner(node): text and tails unescaped, child elements serialized.
render_inner(h, n) == h[n].text \o SerializeKids(h, h[n].kids, TRUE)

\* ---------------------------------------------------------- replace_nodes
\* tree[k] of the code is h[tree].kids[k + 1]; node = 0 stands for None.
\* h1 is the heap with the parsed fragment in it, new_tree the fragment's root.
Splice(h1, new_tree, sn, tree, node, index) ==
    LET ntext == h1[new_tree].text
        nkids == h1[new_tree].kids
        count == Len(nkids)
        last == IF index + count = 0 THEN 0 ELSE (SubSeq(h1[tree].kids, 1, index) \o nkids)[index + count]
        ntail == IF node = 0 THEN <<>> ELSE h1[node].tail
    IN [h |-> [k \in 1..Len(h1) |->
                  IF k = tree
                  THEN [h1[k] EXCEPT
                           !.text = @ \o (IF index = 0 THEN ntext ELSE <<>>)
                                      \o (IF index + count = 0 THEN ntail ELSE <<>>),
                           !.kids = SelectSeq(SubSeq(@, 1, index) \o nkids
                                                  \o SubSeq(@, index + 1, Len(@)),
                                              LAMBDA c : c # node)]
                  ELSE [h1[k] EXCEPT
                           !.tail = @ \o (IF index > 0 /\ k = h1[tree].kids[index]
                                          THEN ntext ELSE <<>>)
                                      \o (IF k = last THEN ntail ELSE <<>>)]],
        seen |-> sn \cup {nkids[k] : k \in {m \in 1..count : h1[nkids[m]].tag = "a"}},
        count |-> count]

\* new_tree is a local of replace_nodes: when it had no children, nothing of it
\* is left in the tree at the return and the heap is as long as h was (n).
Collected(r, n) == IF r.count = 0 THEN [r EXCEPT !.h = SubSeq(@, 1, n)] ELSE r

replace_nodes(h, sn, tree, new_frag, node, index) ==
    CHOOSE r \in {Collected(Splice(h1, Len(h) + 1, sn, tree, node, index), Len(h)) :
                     h1 \in {parseFragment(h, new_frag)}} : TRUE

\* ---------------------------------------------------------- linkify_nodes
\* A frame of linkify_nodes(tree, parse_text): cur is current_child; at is where
\* the frame resumes when the call it made returns.
Frame(tree, pt) == [tree |-> tree, cur |-> -1, pt |-> pt, at |-> "loop"]

Fr == Head(stack)
Walking == wpc = "walk" /\ stack # <<>> /\ Len(stack) <= RecLimit
InLoop == Walking /\ Fr.at = "loop"
\* past "if not tree.text: return" inside the while loop
InBody == InLoop /\ Fr.cur < Len(heap[Fr.tree].kids) /\ heap[Fr.tree].text # <<>>

\* The caller goes on after the call returned: "continue" after the call made
\* for an email replacement, "current_child += 1" after a visit.
Resume(st) ==
    IF st = <<>> THEN st
    ELSE <<[Head(st) EXCEPT !.at = "loop",
                            !.cur = IF Head(st).at = "afterVisit" THEN @ + 1 ELSE @]>>
             \o Tail(st)

Return ==
    /\ stack' = Resume(Tail(stack))
    /\ wpc' = IF Tail(stack) = <<>> THEN "render" ELSE "walk"
    /\ UNCHANGED <<winput, chain, parse_email, skip_pre, heap, seen, aborted, wresult,
                   dispatched, scans>>
    /\ UNCHANGED notWalk

\* while current_child < len(tree): false
LoopExit == InLoop /\ ~(Fr.cur < Len(heap[Fr.tree].kids)) /\ Return

\* if not tree.text: return
EmptyTextReturn ==
    InLoop /\ Fr.cur < Len(heap[Fr.tree].kids) /\ heap[Fr.tree].text = <<>> /\ Return

\* The record of the scans made, kept up to MaxScans entries.
Logged(log) == SubSeq(log, 1, Min({Len(log), MaxScans}))

\* What the two substitutions make of a text buffer: email is the text after
\* the email substitution (the text itself without parse_email), url the text
\* after the URL substitution that follows when the first changed nothing.
Scanned(buf, em) ==
    [buf |-> buf, email |-> em, url |-> re_sub("url", em, chain),
     log |-> (IF parse_email THEN <<[kind |-> "email", buf |-> buf]>> ELSE <<>>)
                 \o <<[kind |-> "url", buf |-> buf]>>]
Scan(buf) == Scanned(buf, IF parse_email THEN re_sub("email", buf, chain) ELSE buf)
NoScan == [buf |-> <<>>, email |-> <<>>, url |-> <<>>, log |-> <<>>]

AtLead == InBody /\ Fr.cur < 0 /\ Fr.pt
\* if new_txt and new_txt != node.text (parse_email is set)
EmailChanged(sc) == parse_email /\ sc.email # <<>> /\ sc.email # sc.buf
UrlChanged(sc) == sc.url # sc.buf
EmailScan(sc) == <<[kind |-> "email", buf |-> sc.buf]>>

\* An email replacement in the leading text, and the call on the same tree.
LeadEmail ==
    /\ AtLead
    /\ \E sc \in {Scan(heap[Fr.tree].text)} :
          /\ EmailChanged(sc)
          /\ \E r \in {replace_nodes([heap EXCEPT ![Fr.tree].text = <<>>], seen, Fr.tree,
                                     sc.email, 0, 0)} :
                /\ heap' = r.h
                /\ seen' = r.seen
                /\ stack' = <<Frame(Fr.tree, TRUE),
                              [Fr EXCEPT !.cur = @ + r.count, !.at = "afterEmail"]>>
                                \o Tail(stack)
          /\ scans' = Logged(scans \o EmailScan(sc))
    /\ UNCHANGED <<winput, chain, parse_email, skip_pre, wpc, aborted, wresult, dispatched>>
    /\ UNCHANGED notWalk

\* A URL replacement in the leading text.
LeadUrl ==
    /\ AtLead
    /\ \E sc \in {Scan(heap[Fr.tree].text)} :
          /\ ~EmailChanged(sc) /\ UrlChanged(sc)
          /\ \E r \in {replace_nodes([heap EXCEPT ![Fr.tree].text = <<>>], seen, Fr.tree,
                                     sc.url, 0, 0)} :
                /\ heap' = r.h
                /\ seen' = r.seen
                /\ stack' = <<[Fr EXCEPT !.cur = @ + r.count]>> \o Tail(stack)
          /\ scans' = Logged(scans \o sc.log)
    /\ UNCHANGED <<winput, chain, parse_email, skip_pre, wpc, aborted, wresult, dispatched>>
    /\ UNCHANGED notWalk

\* The rest of an iteration: node is the tree itself or the current child.  ld is
\* the scan of the leading text that changed nothing (no scan off position -1),
\* tl the scan of the node's tail (no scan without parse_text or without a tail).
CurNode == IF Fr.cur < 0 THEN Fr.tree ELSE heap[Fr.tree].kids[Fr.cur + 1]
LeadOf == IF Fr.cur < 0 /\ Fr.pt THEN Scan(heap[Fr.tree].text) ELSE NoScan
TailOf == IF Fr.pt /\ heap[CurNode].tail # <<>> THEN Scan(heap[CurNode].tail) ELSE NoScan
AtNode(ld) == ~EmailChanged(ld) /\ ~UrlChanged(ld)
\* if new_tail != node.tail (parse_email is set)
TailEmailChanged(tl) == parse_email /\ tl.email # tl.buf

\* An email replacement in the tail: the new nodes go right after the node.
TailEmail ==
    /\ InBody
    /\ \E ld \in {LeadOf} : \E tl \in {TailOf} :
          /\ AtNode(ld) /\ TailEmailChanged(tl)
          /\ \E r \in {replace_nodes([heap EXCEPT ![CurNode].tail = <<>>], seen, Fr.tree,
                                     tl.email, 0, Fr.cur + 1)} :
                heap' = r.h /\ seen' = r.seen
          /\ scans' = Logged(scans \o ld.log \o EmailScan(tl))
    /\ UNCHANGED <<winput, chain, parse_email, skip_pre, stack, wpc, aborted, wresult,
                   dispatched>>
    /\ UNCHANGED notWalk

\* The tree and the seen-set after the URL replacement in the tail, if any.
AfterTail(tl) ==
    IF UrlChanged(tl)
    THEN replace_nodes([heap EXCEPT ![CurNode].tail = <<>>], seen, Fr.tree, tl.url, 0,
                       Fr.cur + 1)
    ELSE [h |-> heap, seen |-> seen, count |-> 0]

IsNewAnchor == heap[CurNode].tag = "a" /\ CurNode \notin seen
HasHref == heap[CurNode].attrs["href"] # Absent
\* attrs = dict(node.items()); attrs['_text'] = _render_inner(node)
NodeAttrs(h) == [h[CurNode].attrs EXCEPT !["_text"] = render_inner(h, CurNode)]
Advance == stack' = <<[Fr EXCEPT !.cur = @ + 1]>> \o Tail(stack)

\* An existing anchor, run through the chain with is_new = False.  Rejected: it
\* is replaced by the text within it and the position is scanned again.
\* Accepted: its attributes are set, its content re-parsed, and it is seen.
Dispatched(a, attrs, link) ==
    IF ~link.ok
    THEN \E r \in {replace_nodes(a.h, a.seen, Fr.tree, attrs["_text"], CurNode, Fr.cur)} :
            heap' = r.h /\ seen' = r.seen /\ stack' = stack
    ELSE \E h1 \in {parseFragment(a.h, link.attrs["_text"])} :
            /\ heap' = [h1 EXCEPT
                           ![CurNode].attrs =
                               [k \in AttrKeys |->
                                   IF k # "_text" /\ link.attrs[k] # Absent
                                   THEN link.attrs[k] ELSE @[k]],
                           ![CurNode].text = h1[Len(a.h) + 1].text,
                           ![CurNode].kids = h1[Len(a.h) + 1].kids]
            /\ seen' = a.seen \cup {CurNode}
            /\ Advance

DispatchOf(a, attrs) == Dispatched(a, attrs, apply_callbacks(chain, attrs, FALSE))

Dispatch ==
    /\ InBody /\ IsNewAnchor /\ HasHref
    /\ \E ld \in {LeadOf} : \E tl \in {TailOf} :
          /\ AtNode(ld) /\ ~TailEmailChanged(tl)
          /\ \E a \in {AfterTail(tl)} : DispatchOf(a, NodeAttrs(a.h))
          /\ scans' = Logged(scans \o ld.log \o tl.log)
    /\ dispatched' = Append(dispatched, CurNode)
    /\ UNCHANGED <<winput, chain, parse_email, skip_pre, wpc, aborted, wresult>>
    /\ UNCHANGED notWalk

\* linkify_nodes(node, False) for a pre under skip_pre, linkify_nodes(node,
\* parse_text) for any other child not in the seen-set.
WalksInto ==
    /\ ~IsNewAnchor
    /\ Fr.cur >= 0
    /\ (heap[CurNode].tag = "pre" /\ skip_pre) \/ CurNode \notin seen

Recurse ==
    /\ InBody /\ WalksInto
    /\ \E ld \in {LeadOf} : \E tl \in {TailOf} :
          /\ AtNode(ld) /\ ~TailEmailChanged(tl)
          /\ \E a \in {AfterTail(tl)} : heap' = a.h /\ seen' = a.seen
          /\ scans' = Logged(scans \o ld.log \o tl.log)
    /\ stack' = <<Frame(CurNode, Fr.pt /\ ~(heap[CurNode].tag = "pre" /\ skip_pre)),
                  [Fr EXCEPT !.at = "afterVisit"]>> \o Tail(stack)
    /\ UNCHANGED <<winput, chain, parse_email, skip_pre, wpc, aborted, wresult, dispatched>>
    /\ UNCHANGED notWalk

\* Nothing to do with the node: the tree itself, an anchor in the seen-set, an
\* anchor without href.
Skip ==
    /\ InBody /\ ~(IsNewAnchor /\ HasHref) /\ ~WalksInto
    /\ \E ld \in {LeadOf} : \E tl \in {TailOf} :
          /\ AtNode(ld) /\ ~TailEmailChanged(tl)
          /\ \E a \in {AfterTail(tl)} : heap' = a.h /\ seen' = a.seen
          /\ scans' = Logged(scans \o ld.log \o tl.log)
    /\ Advance
    /\ UNCHANGED <<winput, chain, parse_email, skip_pre, wpc, aborted, wresult, dispatched>>
    /\ UNCHANGED notWalk

\* The call just made exceeds the recursion limit: RuntimeError, caught by
\* linkify's except clause.
RecursionError ==
    /\ wpc = "walk" /\ Len(stack) > RecLimit
    /\ stack' = <<>>
    /\ aborted' = TRUE
    /\ wpc' = "render"
    /\ UNCHANGED <<winput, chain, parse_email, skip_pre, heap, seen, wresult, dispatched,
                   scans>>
    /\ UNCHANGED notWalk

\* linkify returning the forest as it was parsed.
ReturnedOriginal(forest0, forest) == serialize(forest0, 1)

\* What linkify returns once the walk is over or was aborted; forest0 is the
\* forest as parsed.
Returned(forest0, forest) == serialize(forest, 1)

Forest0 == parseFragment(<<>>, winput)

\* return _render(forest)
RenderForest ==
    /\ wpc = "render"
    /\ wresult' = Returned(Forest0, heap)
    /\ wpc' = "done"
    /\ UNCHANGED <<winput, chain, parse_email, skip_pre, heap, seen, stack, aborted,
                   dispatched, scans>>
    /\ UNCHANGED notWalk

\* if not text: return u''
LinkifyEmpty ==
    /\ wpc = "call" /\ winput = <<>>
    /\ wresult' = <<>>
    /\ wpc' = "done"
    /\ UNCHANGED <<winput, chain, parse_email, skip_pre, heap, seen, stack, aborted,
                   dispatched, scans>>
    /\ UNCHANGED notWalk

\* forest = parser.parseFragment(text); _seen = set(); linkify_nodes(forest)
LinkifyParse ==
    /\ wpc = "call" /\ winput # <<>>
    /\ heap' = Forest0
    /\ seen' = {}
    /\ stack' = <<Frame(1, TRUE)>>
    /\ wpc' = "walk"
    /\ UNCHANGED <<winput, chain, parse_email, skip_pre, aborted, wresult, dispatched, scans>>
    /\ UNCHANGED notWalk

WalkNext ==
    \/ LinkifyEmpty \/ LinkifyParse \/ LoopExit \/ EmptyTextReturn \/ LeadEmail
    \/ LeadUrl \/ TailEmail \/ Dispatch \/ Recurse \/ Skip
    \/ RecursionError \/ RenderForest

WalkIdle ==
    /\ winput = <<>> /\ parse_email = FALSE /\ skip_pre = FALSE /\ heap = <<>> /\ seen = {}
    /\ stack = <<>> /\ wpc = "idle" /\ aborted = FALSE /\ wresult = <<>>
    /\ dispatched = <<>> /\ scans = <<>>

ReplIdle ==
    /\ text = <<>> /\ kind = "url" /\ subs = <<>> /\ out = <<>> /\ rpc = "idle"

CbIdle ==
    /\ attrs0 = NoAttrs /\ isNew = FALSE /\ res = [ok |-> FALSE, attrs |-> NoAttrs, calls |-> <<>>]

\* ------------------------------------------------- re.sub on a text buffer
\* Texts around one host: parentheses before it, a path and a tail after it.
TrailTok == {")", ".", "(", "x"}
ReplTexts ==
    {Rep("(", k) \o h \o sl \o t :
        k \in 0..MaxParens,
        h \in {<<"x", ".", "com">>, <<"http", ":", "/", "/", "x", ".", "com">>,
               <<"x", "@", "x", ".", "com">>},
        sl \in {<<>>, <<"/">>, <<"/", ",">>},
        t \in SeqsUpTo(TrailTok, MaxTrail)}

ReplInit ==
    /\ text \in ReplTexts
    /\ chain \in ShortChains
    /\ kind \in {"url", "email"}
    /\ subs = <<>>
    /\ out = <<>>
    /\ rpc = "start"
    /\ CbIdle
    /\ CleanIdle
    /\ WalkIdle

\* re.sub(url_re, link_repl, text) or re.sub(email_re, email_repl, text): every
\* match with its replacement and whether the chain accepted it.
\* One call of the replacement function, on the match m.
SubRecord(m) ==
    [match |-> m, repl |-> Repl(kind, m, chain),
     ok |-> apply_callbacks(chain, IF kind = "url" THEN LinkAttrs(m) ELSE EmailAttrs(m),
                            TRUE).ok]

Sub ==
    /\ rpc = "start"
    /\ \E sps \in {Spans(kind, text, 1)} :
          subs' = [n \in 1..Len(sps) |-> SubRecord(SubSeq(text, sps[n].from, sps[n].to))]
    /\ out' = re_sub(kind, text, chain)
    /\ rpc' = "done"
    /\ UNCHANGED <<text, chain, kind>>
    /\ UNCHANGED cbVars
    /\ UNCHANGED cleanVars
    /\ UNCHANGED walkVars

ReplNext == Sub

SpecRepl == ReplInit /\ [][ReplNext]_vars

\* Reading a replacement: the first index of token t in s (0: none), the href and
\* the link text of its anchor.
IndexOf(s, t) ==
    IF \E i \in 1..Len(s) : s[i] = t THEN Min({i \in 1..Len(s) : s[i] = t}) ELSE 0

HrefOf(r) ==
    LET a == IndexOf(r, "=\"")
        q == Min({i \in (a+1)..Len(r) : r[i] = "\""})
    IN SubSeq(r, a + 1, q - 1)

AnchorTextOf(r) == SubSeq(r, IndexOf(r, ">") + 1, IndexOf(r, "</a>") - 1)

\* C3, as claimed: whenever the chain rejects a URL or email match, the
\* replacement re.sub receives for it is exactly the matched substring, the
\* parentheses and the trailing "." / "," punctuation included.
C3_VetoRestoresMatch ==
    rpc = "done" => \A n \in 1..Len(subs) : ~subs[n].ok => subs[n].repl = subs[n].match

\* A parenthesis that wraps u: one at its start, or one at its end that no "("
\* inside u balances.
NoWrappingParen(u) ==
    u # <<>> => /\ Head(u) # "("
                /\ ~(u[Len(u)] = ")" /\ \A i \in 1..Len(u) : u[i] # "(")

\* C4, as claimed: for every accepted URL match with k leading "(", the k
\* parentheses stand before the anchor, and neither the href nor the link text
\* holds a wrapping parenthesis, wherever the trailing ")" and "." / "," stand.
C4_ParensOutsideAnchor ==
    (rpc = "done" /\ kind = "url") =>
        \A n \in 1..Len(subs) :
            subs[n].ok =>
                LET r == subs[n].repl
                    k == RunEnd(subs[n].match, 1, {"("})
                IN /\ IndexOf(r, "<a") = k + 1
                   /\ \A i \in 1..k : r[i] = "("
                   /\ NoWrappingParen(AnchorTextOf(r))
                   /\ NoWrappingParen(HrefOf(r))

\* ------------------------------------------------ one apply_callbacks call
CbAttrs ==
    {[NoAttrs EXCEPT !["_text"] = <<"x">>, !["href"] = <<"x", ".", "com">>],
     [NoAttrs EXCEPT !["_text"] = <<"x">>, !["href"] = <<"x">>, !["rel"] = <<"x">>],
     [NoAttrs EXCEPT !["_text"] = <<>>, !["href"] = <<"mailto:", "x">>, !["title"] = <<"x">>]}

CbInit ==
    /\ chain \in Chains
    /\ attrs0 \in CbAttrs
    /\ isNew \in BOOLEAN
    /\ res = [ok |-> FALSE, attrs |-> NoAttrs, calls |-> <<>>]
    /\ ReplIdle
    /\ CleanIdle
    /\ WalkIdle


Apply ==
    /\ rpc = "idle"
    /\ res' = apply_callbacks(chain, attrs0, isNew)
    /\ rpc' = "applied"
    /\ UNCHANGED <<text, chain, kind, subs, out, attrs0, isNew>>
    /\ UNCHANGED cleanVars
    /\ UNCHANGED walkVars

CbNext == Apply

SpecCb == CbInit /\ [][CbNext]_vars

\* C6: the callbacks run in list order, each on the mapping the one before it
\* returned and with the same is_new flag; the first reject ends the chain with
\* reject and nothing after it runs; an empty chain returns the mapping as given.
C6_ChainOrder ==
    rpc = "applied" =>
        LET n == Len(res.calls)
            ret(i) == cb(chain[i], res.calls[i].attrs, isNew)
        IN /\ n <= Len(chain)
           /\ \A i \in 1..n : res.calls[i].cb = chain[i] /\ res.calls[i].new = isNew
           /\ n >= 1 => res.calls[1].attrs = attrs0
           /\ \A i \in 2..n : ret(i-1).ok /\ res.calls[i].attrs = ret(i-1).attrs
           /\ res.ok => /\ n = Len(chain)
                        /\ n > 0 => ret(n).ok
                        /\ res.attrs = IF n = 0 THEN attrs0 ELSE ret(n).attrs
           /\ ~res.ok => n >= 1 /\ ~ret(n).ok

\* A chain of two whose first callback rejected: the second never ran.
C6_Witness ==
    rpc = "applied" /\ Len(chain) = 2 /\ Len(res.calls) = 1 /\ ~res.ok

\* ------------------------------------------------ calls of clean
\* One caller, one Cleaner.clean call.
CleanInit ==
    /\ cfg \in Configs
    /\ call = [t \in Callers |-> "Cleaner.clean"]
    /\ inst = [t \in Callers |-> "A"]
    /\ \E s \in Streams : input = [t \in Callers |-> IF t = 1 THEN s ELSE <<>>]
    /\ ptree = [q \in Parsers |-> <<>>]
    /\ dom = [t \in Callers |-> <<>>]
    /\ result = [t \in Callers |-> <<>>]
    /\ cpc = [t \in Callers |-> IF t = 1 THEN "call" ELSE "idle"]
    /\ ReplIdle /\ chain = <<>> /\ CbIdle /\ WalkIdle

SpecClean == CleanInit /\ [][CleanNext]_vars

\* Two callers at once, each with a call of any kind on either instance.
ThreadStreams == {<<>>} \cup {s \in Items : \A i \in 1..Len(s) : s[i].attrs = {}}
ThreadConfigs == {c \in Configs : c.tags = ALLOWED_TAGS /\ c.protocols = ALLOWED_PROTOCOLS
                                   /\ c.attributes = ALLOWED_ATTRIBUTES /\ c.strip_comments}

ThreadInit ==
    /\ cfg \in ThreadConfigs
    /\ call \in [Callers -> CallKinds]
    /\ inst \in [Callers -> Instances]
    /\ input \in [Callers -> ThreadStreams]
    /\ ptree = [q \in Parsers |-> <<>>]
    /\ dom = [t \in Callers |-> <<>>]
    /\ result = [t \in Callers |-> <<>>]
    /\ cpc = [t \in Callers |-> "call"]
    /\ ReplIdle /\ chain = <<>> /\ CbIdle /\ WalkIdle

SpecThreads == ThreadInit /\ [][CleanNext]_vars

\* The elements of a serialized output: the attributes that follow a tag name.
RECURSIVE AttrsAt(_, _)
AttrsAt(r, j) ==
    IF j + 4 <= Len(r) /\ r[j] = " "
    THEN {At(r[j + 1], r[j + 3])} \cup AttrsAt(r, j + 5)
    ELSE {}

ElementOK(c, tag, attrs) ==
    /\ tag \in c.tags
    /\ \A a \in attrs :
          /\ a.name \in c.attributes[tag] \cup c.attributes["*"]
          /\ a.name \in UrlAttrs => (a.val = "" \/ Lower(a.val) \in c.protocols)

OutputSound(c, r) ==
    \A i \in 1..Len(r) : r[i] = "<" => ElementOK(c, r[i + 1], AttrsAt(r, i + 2))

\* C1 as stated: for every input event stream and every config, every element
\* clean emits as markup has an allowed tag, only allowed attributes, and in href
\* and src no scheme or a scheme (case-insensitively) in the config's protocols.
C1_WhitelistSoundAnyConfig ==
    \A t \in Callers : cpc[t] = "done" => OutputSound(cfg, result[t])

\* C1 amended: the same, for every config with no extra filters after the sanitizer.
C1_WhitelistSound ==
    \A t \in Callers :
        (cpc[t] = "done" /\ cfg.filters = <<>>) => OutputSound(cfg, result[t])

\* C1 witness: an anchor with a javascript href and an onclick handler was cleaned
\* with "a" allowed and no extra filter, and is emitted bare.
C1_Witness ==
    /\ cpc[1] = "done"
    /\ cfg.filters = <<>>
    /\ input[1] = <<Ev("open", "a", {At("href", "JavaScript"), At("onclick", "v")}),
                    Ev("close", "a", {})>>
    /\ result[1] = <<"<", "a", ">", "</", "a", ">">>

ScriptInput == <<Ev("open", "script", {}), Ev("text", "a()", {}), Ev("close", "script", {})>>
ScriptCleaned(t) == cpc[t] = "done" /\ input[t] = ScriptInput /\ "script" \notin cfg.tags

\* C2 as stated: a disallowed <script>a()</script> is emitted as escaped text with
\* strip=false, and with strip=true the output is empty.
C2_StripEmpty ==
    \A t \in Callers :
        ScriptCleaned(t) =>
            IF cfg.strip THEN result[t] = <<>>
            ELSE result[t] = <<"&lt;", "script", "&gt;", "a()", "&lt;/", "script", "&gt;">>

\* C2 amended: with strip=false the output is the escaped open tag, the content and
\* the escaped close tag; with strip=true the output is the content alone, with
\* neither tag marker.
C2_StripKeepsContent ==
    \A t \in Callers :
        ScriptCleaned(t) =>
            IF cfg.strip THEN result[t] = <<"a()">>
            ELSE result[t] = <<"&lt;", "script", "&gt;", "a()", "&lt;/", "script", "&gt;">>

\* C2 witness: the script element was cleaned with strip=true and its content is
\* the output.
C2_Witness == ScriptCleaned(1) /\ cfg.strip /\ result[1] = <<"a()">>

\* What a call returns when it runs alone.
Alone(t) == IF input[t] = <<>> THEN <<>> ELSE Render(Filtered(cfg, input[t]))

\* C9: two calls interleaved in any order, two clean calls on one Cleaner instance
\* included, return what they return when run one after the other.
C9_InterleavedAsSequential ==
    (\A t \in Callers : cpc[t] = "done") => \A t \in Callers : result[t] = Alone(t)

\* ------------------------------------------------------ calls of linkify
\* The pieces an input is made of.
Chunks ==
    {<<"x", " ", "x", ".", "com", " ">>,
     <<"x", "@", "x", "-", "x", ".", "com">>,
     <<"<a", " ", "href", "=\"", "http", ":", "/", "/", "x", ".", "com", "\"", ">",
       "x", "</a>">>,
     <<"<span>", "x", " ">>,
     <<"</span>">>,
     <<"x", " ", "&lt;span&gt;">>,
     <<"<pre>", "x", " ">>,
     <<"\"", "x", "\"", "@", "x", ".", "com">>}
WalkInputs == {Concat(c) : c \in SeqsUpTo(Chunks, MaxChunks)}

\* The chains of a call: none, one that accepts, one that rejects the links
\* linkify makes, one that rejects the links it finds.
WalkChains == {<<>>, <<"rel">>, <<"rejectNew">>, <<"rejectOld">>}

HasToken(s, t) == \E i \in 1..Len(s) : s[i] = t

\* skip_pre is tried on the inputs that have a pre element.
WalkInit ==
    /\ winput \in WalkInputs
    /\ chain \in WalkChains
    /\ parse_email \in BOOLEAN
    /\ skip_pre \in {b \in BOOLEAN : b => HasToken(winput, "<pre>")}
    /\ heap = <<>> /\ seen = {} /\ stack = <<>> /\ wpc = "call" /\ aborted = FALSE
    /\ wresult = <<>> /\ dispatched = <<>> /\ scans = <<>>
    /\ text = <<>> /\ kind = "url" /\ subs = <<>> /\ out = <<>> /\ rpc = "idle"
    /\ CbIdle /\ CleanIdle

SpecWalk == WalkInit /\ [][WalkNext]_vars

\* The nodes of the forest as parsed: the root and every node of the input.
Original(n) == n <= Len(Forest0)
Returns == wpc = "done" /\ ~aborted /\ winput # <<>>

\* C5: every anchor with an href that the parser produced from the input is run
\* through the callback chain with is_new = False before linkify returns, unless
\* the walk was aborted.
C5_EveryAnchorDispatched ==
    Returns =>
        \A n \in 1..Len(Forest0) :
            (Forest0[n].tag = "a" /\ Forest0[n].attrs["href"] # Absent)
                => \E i \in 1..Len(dispatched) : dispatched[i] = n

\* The text is one email address, from its first to its last token.
IsEmail(s) == s # <<>> /\ EmailEnd(s, 1) = Len(s)
Mailto(n) ==
    /\ heap[n].tag = "a" /\ heap[n].attrs["href"] # Absent
    /\ heap[n].attrs["href"] # <<>> /\ Head(heap[n].attrs["href"]) = "mailto:"

\* C7: with parse_email off no text is scanned for emails, no mailto anchor is
\* made and a text that is one email address is returned as it is; with
\* parse_email on every scan for URLs follows a scan of the same text for emails,
\* and a mailto anchor's href is "mailto:" followed by its text.
C7_EmailOptIn ==
    /\ ~parse_email =>
          /\ \A i \in 1..Len(scans) : scans[i].kind # "email"
          /\ \A n \in 1..Len(heap) : ~Original(n) => ~Mailto(n)
          /\ (wpc = "done" /\ IsEmail(winput)) => wresult = winput
    /\ parse_email =>
          /\ \A i \in 1..Len(scans) :
                scans[i].kind = "url" =>
                    i > 1 /\ scans[i-1].kind = "email" /\ scans[i-1].buf = scans[i].buf
          /\ \A n \in 1..Len(heap) :
                (~Original(n) /\ Mailto(n)) =>
                    heap[n].attrs["href"] = <<"mailto:">> \o heap[n].text

\* C8: a walk that ran into the recursion limit does not make linkify fail:
\* linkify returns the serialization of the forest as the walk left it.
C8_AbortReturnsTree ==
    /\ aborted => wpc \in {"render", "done"}
    /\ (aborted /\ wpc = "done") => wresult = serialize(heap, 1)

\* C8 witness: the walk was aborted after it had made a link, and linkify
\* returned the forest with that link, not the forest as parsed.
C8_Witness ==
    /\ aborted /\ wpc = "done"
    /\ wresult # serialize(Forest0, 1)
    /\ HasToken(wresult, "<a")

\* C10: the chain is called with is_new = False at most once for an anchor of
\* the input, and never for an anchor linkify made, however deep in the tree.
C10_SeenNotReprocessed ==
    /\ \A i \in 1..Len(dispatched) : Original(dispatched[i])
    /\ \A i, j \in 1..Len(dispatched) : dispatched[i] = dispatched[j] => i = j


\* The walk is about to rewrite the leading text of the tree for an email match
\* and call itself on the same tree; the tree and seen-set that call starts with.
LeadRescan == AtLead /\ EmailChanged(Scan(heap[Fr.tree].text))
LeadSpliced ==
    replace_nodes([heap EXCEPT ![Fr.tree].text = <<>>], seen, Fr.tree,
                  Scan(heap[Fr.tree].text).email, 0, 0)

\* The walk is about to rewrite the tail of the current node for an email match
\* and go round the loop with the same cursor; the tree and seen-set it then has.
TailRescan == InBody /\ AtNode(LeadOf) /\ TailEmailChanged(TailOf)
TailSpliced ==
    replace_nodes([heap EXCEPT ![CurNode].tail = <<>>], seen, Fr.tree,
                  TailOf.email, 0, Fr.cur + 1)

Same(r) == r.h = heap /\ r.seen = seen

\* C11: the walk terminates; in particular a splice-then-rescan step (the call on
\* the same tree after an email replacement in the leading text, the "continue"
\* with the same cursor after one in a tail) never rescans the tree it started
\* from, so it cannot repeat forever on the same text buffer, whatever the chain
\* rejects.
C11_RescanMakesProgress ==
    /\ LeadRescan => \E r \in {LeadSpliced} : ~Same(r)
    /\ TailRescan => \E r \in {TailSpliced} : ~Same(r)

\* ------------------------------------------- calls that unwrap an anchor
\* An anchor whose text holds the characters <span>, written escaped.
EscapedAnchor ==
    <<"<a", " ", "href", "=\"", "http", ":", "/", "/", "x", ".", "com", "\"", ">",
      "x", " ", "&lt;span&gt;", "</a>">>
UnwrapChunks ==
    {<<"x", " ", "x", ".", "com", " ">>,
     <<"x", "@", "x", "-", "x", ".", "com">>,
     <<"<a", " ", "href", "=\"", "http", ":", "/", "/", "x", ".", "com", "\"", ">",
       "x", "</a>">>,
     <<"x", " ", "&lt;span&gt;">>,
     EscapedAnchor}
UnwrapInputs == {Concat(c) : c \in SeqsUpTo(UnwrapChunks, MaxChunks)}

UnwrapInit ==
    /\ winput \in UnwrapInputs
    /\ chain \in WalkChains
    /\ parse_email \in BOOLEAN
    /\ skip_pre = FALSE
    /\ heap = <<>> /\ seen = {} /\ stack = <<>> /\ wpc = "call" /\ aborted = FALSE
    /\ wresult = <<>> /\ dispatched = <<>> /\ scans = <<>>
    /\ text = <<>> /\ kind = "url" /\ subs = <<>> /\ out = <<>> /\ rpc = "idle"
    /\ CbIdle /\ CleanIdle

SpecUnwrap == UnwrapInit /\ [][WalkNext]_vars

\* The walk is at an existing anchor with an href that the chain rejects.
Rejecting ==
    /\ InBody /\ IsNewAnchor /\ HasHref
    /\ AtNode(LeadOf) /\ ~TailEmailChanged(TailOf)
    /\ \E a \in {AfterTail(TailOf)} : ~apply_callbacks(chain, NodeAttrs(a.h), FALSE).ok

\* All that is inside the element p, in document order, as serialized.
Content(h, p) == EscText(h[p].text) \o SerializeKids(h, h[p].kids, FALSE)

\* The same with the child a of p at index i taken out and, in its place, what
\* was inside it and then its tail.
UnwrappedContent(h, p, i, a) ==
    EscText(h[p].text) \o SerializeKids(h, SubSeq(h[p].kids, 1, i), FALSE)
        \o Content(h, a) \o EscText(h[a].tail)
        \o SerializeKids(h, SubSeq(h[p].kids, i + 2, Len(h[p].kids)), FALSE)

\* C12: when the chain rejects an existing anchor, the anchor is removed, what
\* was inside it takes its place, its tail follows, and everything else inside
\* the parent is as it was, in document order.
C12_UnwrapLosesNothing ==
    [][Rejecting =>
          \E a \in {AfterTail(TailOf)} :
              Content(heap', Fr.tree) = UnwrappedContent(a.h, Fr.tree, Fr.cur, CurNode)]_vars

\* How many times the token t is in s.
Count(s, t) == Cardinality({i \in 1..Len(s) : s[i] = t})

\* C13: linkify adds no element but anchors: what it returns has as many span
\* and pre elements as the input had, the characters < and > that were text
\* in the input being text still.
C13_OnlyAnchorsAdded ==
    wpc = "done" =>
        \A t \in {"<span>", "<pre>"} : Count(wresult, t) = Count(serialize(Forest0, 1), t)

====
